---------------------------- MODULE Spec2Model ----------------------------
(***************************************************************************)
(* Booking.com price monitor (src/app.py).                                 *)
(*                                                                         *)
(* One click of "Run comparison" loads the sheet and walks the groups      *)
(* (unit_name, room_type) in sheet order.  For each group it validates the *)
(* block, fans out one scraper job per row (asyncio.gather), builds the    *)
(* comparison table, compares it with the cached CSV of the group, and     *)
(* overwrites the cached CSV.  Any exception raised while a group is       *)
(* processed is caught by the per-group try/except.                        *)
(*                                                                         *)
(* Money is kept in integer cents.  DataFrame cells are records            *)
(* [kind, val]; kind is "num", "nan" (float NaN), "none" (Python None in   *)
(* an object column) or "inf"/"-inf".  CSV cells are records of kind       *)
(* "csv_num" / "csv_empty" / "csv_inf" / "csv_-inf".                       *)
(***************************************************************************)
EXTENDS Integers, Sequences, FiniteSets, TLC

VARIABLES
    pc,         \* "idle" | "loop" | "gather"
    check_in,   \* st.date_input("Check-in"), days from today
    check_out,  \* st.date_input("Check-out"), days from today
    df,         \* the sheet of the current run (load_sheet)
    groups,     \* the (unit, room) pairs the two loops walk, in order
    gi,         \* position of the loops in groups
    rows,       \* build_room_table: rows = [own] + competitors
    tasks,      \* per submitted row: pending, or the dict fetch_price returned
    payloads,   \* per submitted row: what run_apify returned to that task
    df_room,    \* the table of the group processed last
    old,        \* the cached CSV as read for that group
    changed,    \* merged rows whose price differs from the cached one
    alerts,     \* alerts collected in the current run
    report,     \* per group of the run: "" | "table" | the st.error text
    files,      \* the file system: cache file name -> content
    slack       \* alerts posted to the webhook at the end of the run

vars == <<pc, check_in, check_out, df, groups, gi, rows, tasks, payloads,
          df_room, old, changed, alerts, report, files, slack>>

---------------------------------------------------------------------------
(* Bounds of the model *)

\* check-out is drawn from 0..MaxStay days from today
MaxStay == 3

---------------------------------------------------------------------------
(* Program constants *)

\* validate_room_block: len(competitors) != 5
NumCompetitors == 5
\* validate_room_block: len(own) != 1
NumOwn == 1
\* round(total/nights, 2): two decimals, i.e. whole cents
PriceDecimals == 2
\* (.../own_price*100).round(1): one decimal, i.e. tenths of a percent
PctDecimals == 1

---------------------------------------------------------------------------
(* Cells *)

Num(c) == [kind |-> "num", val |-> c]
NaN == [kind |-> "nan", val |-> 0]
None == [kind |-> "none", val |-> 0]
PosInf == [kind |-> "inf", val |-> 0]
NegInf == [kind |-> "-inf", val |-> 0]

IsNum(x) == x.kind = "num"
\* pandas isna(): NaN and None are missing, infinities are not
IsNa(x) == x.kind \in {"nan", "none"}

Abs(n) == IF n < 0 THEN -n ELSE n
Sign(n) == IF n < 0 THEN -1 ELSE 1

Pow10(k) == IF k = 0 THEN 1 ELSE IF k = 1 THEN 10 ELSE 100

\* a/b rounded to the nearest integer, ties to even (b > 0)
RoundDiv(a, b) ==
    LET q == Abs(a) \div b
        r == Abs(a) % b
        up == (2 * r > b) \/ (2 * r = b /\ q % 2 = 1)
    IN  Sign(a) * (IF up THEN q + 1 ELSE q)

---------------------------------------------------------------------------
(* The sheet *)

MissingUrl == "<NA>"

Row(unit, room, role, name, url) ==
    [unit_name |-> unit, room_type |-> room, role |-> role,
     property_name |-> name, booking_url |-> url]

RECURSIVE Unique(_)
\* pandas Series.unique(): distinct values in order of first appearance
Unique(s) ==
    IF s = <<>> THEN <<>>
    ELSE LET init == Unique(SubSeq(s, 1, Len(s) - 1))
             x == s[Len(s)]
         IN  IF \E i \in 1..Len(init) : init[i] = x THEN init
             ELSE Append(init, x)

RECURSIVE Flatten(_)
Flatten(ss) ==
    IF ss = <<>> THEN <<>> ELSE Head(ss) \o Flatten(Tail(ss))

Column(frame, col) == [i \in 1..Len(frame) |-> frame[i][col]]

\* the nested loops "for unit in df.unit_name.unique(): for room in rooms"
Groups(sheet) ==
    LET units == Unique(Column(sheet, "unit_name"))
        roomsOf(u) ==
            Unique(Column(SelectSeq(sheet, LAMBDA r : r.unit_name = u),
                          "room_type"))
    IN  Flatten([k \in 1..Len(units) |->
                    [j \in 1..Len(roomsOf(units[k])) |->
                        [unit |-> units[k], room |-> roomsOf(units[k])[j]]]])


\* Own and C1 are listings whose scrape may come back empty
Flaky == {"Own", "C1"}

\* the booking_url of a property in a sheet of the given kind
UrlOf(kind, name) ==
    IF kind = "main"
        THEN (IF name \in Flaky THEN "flaky/" \o name ELSE "live/" \o name)
    ELSE IF kind = "dead" THEN "dead/" \o name
    ELSE IF kind = "hole"
        THEN (IF name = "C3" THEN MissingUrl ELSE "live/" \o name)
    ELSE "live/" \o name

ValidBlock(unit, room, names, kind) ==
    [i \in 1..Len(names) |->
        Row(unit, room, IF i = 1 THEN "own" ELSE "competitor",
            names[i], UrlOf(kind, names[i]))]

\* a block whose rows carry the given roles, all URLs live
RoleBlock(unit, room, names, roles) ==
    [i \in 1..Len(names) |->
        Row(unit, room, roles[i], names[i], UrlOf("live", names[i]))]

NamesA == <<"Own", "C1", "C2", "C3", "C4", "C5">>
\* the sheet after the operator replaced competitor C5 by C6
NamesB == <<"Own", "C1", "C2", "C3", "C4", "C6">>

\* a group without own row, the monitored group, then three more invalid
\* groups: two own rows, four competitors, a missing booking_url
SheetMain ==
    RoleBlock("0", "dbl", NamesA, [i \in 1..6 |-> "competitor"])
    \o ValidBlock("A", "B_C", NamesA, "main")
    \o RoleBlock("Z", "tpl", <<"Own", "Own2">> \o Tail(NamesA),
                 <<"own", "own">> \o [i \in 1..5 |-> "competitor"])
    \o RoleBlock("Z", "fam", SubSeq(NamesA, 1, 5),
                 <<"own">> \o [i \in 1..4 |-> "competitor"])
    \o ValidBlock("Z", "sgl", NamesA, "hole")

SheetEdited == ValidBlock("A", "B_C", NamesB, "main")

\* every listing of the group has been taken down
SheetDead == ValidBlock("A", "B_C", NamesA, "dead")

\* unit "A_B" with room "C" next to unit "A" with room "B_C"
SheetShared ==
    ValidBlock("A", "B_C", NamesA, "live")
    \o ValidBlock("A_B", "C", NamesB, "live")

\* the sheets in which every group keeps a live listing and no two groups
\* map to one cache file name
SheetsLive == {SheetMain, SheetEdited}
Sheets == SheetsLive \cup {SheetDead, SheetShared}

---------------------------------------------------------------------------
(* The scraper, as seen through run_apify *)

\* total price of the stay the listing quotes, in cents
TotalOf(url) ==
    IF url \in {"flaky/Own", "live/Own"} THEN 10000
    ELSE IF url \in {"flaky/C1", "live/C1"} THEN 8000
    ELSE 12000

NoItems == [items |-> <<>>]
Item(total) == [items |-> <<[total |-> total]>>]
\* a total that is not a number ("EUR 100"): total/nights raises TypeError
TextTotal == [kind |-> "str", val |-> 0]

\* what res.json() may be for a URL when the call does not raise
Responses(url) ==
    IF url = "dead/Own" THEN {NoItems, Item(TextTotal)}
    ELSE IF url \in {UrlOf("dead", n) : n \in {"C1", "C2", "C3", "C4", "C5"}}
        THEN {NoItems}
    ELSE IF url \in {"flaky/" \o n : n \in Flaky}
        THEN {NoItems, Item(Num(TotalOf(url)))}
    ELSE {Item(Num(TotalOf(url)))}

\* httpx.TimeoutException, httpx.TransportError / raise_for_status
Faults == {"timeout", "transport error"}

---------------------------------------------------------------------------
(* Pure functions of src/app.py *)

RoomBlock(sheet, unit, room) ==
    SelectSeq(sheet, LAMBDA r : r.unit_name = unit /\ r.room_type = room)

\* a validation that only asks for some own row
OwnCountTooFew(n) == n < NumOwn

OwnCountBad(n) == n # NumOwn

validate_room_block(sheet, unit, room) ==
    LET block == RoomBlock(sheet, unit, room)
        own == SelectSeq(block, LAMBDA r : r.role = "own")
        competitors == SelectSeq(block, LAMBDA r : r.role = "competitor")
    IN  IF OwnCountBad(Len(own))
            THEN [ok |-> FALSE, err |-> "Must have exactly 1 own property",
                  rows |-> <<>>]
        ELSE IF Len(competitors) # NumCompetitors
            THEN [ok |-> FALSE, err |-> "Must have exactly 5 competitors",
                  rows |-> <<>>]
        ELSE IF \E i \in 1..Len(block) : block[i].booking_url = MissingUrl
            THEN [ok |-> FALSE, err |-> "Missing booking_url", rows |-> <<>>]
        ELSE [ok |-> TRUE, err |-> "",
              rows |-> <<own[1]>> \o competitors]

\* nights = (check_out - check_in).days
Nights(ci, co) == co - ci

\* round(total/nights, 2), None on any exception.  Totals are given in
\* cents; the inputs of the model never put total/nights on a tie.
extract_price_per_night(apify_result, nights) ==
    IF apify_result.items = <<>> THEN None
    ELSE LET total == apify_result.items[1].total
         IN  IF ~IsNum(total) THEN None
             ELSE Num(RoundDiv(total.val * Pow10(PriceDecimals),
                               100 * nights))

fetch_price(row, result, nights) ==
    [property_name |-> row.property_name,
     role |-> row.role,
     price_per_night |-> extract_price_per_night(result, nights)]

\* tasks that all see the loop variable's final value (late binding)
TaskRowLate(rs, i) == rs[Len(rs)]

\* tasks = [fetch_price(row, ...) for row in rows]: the row of the i-th task
TaskRow(rs, i) == rs[i]

\* pd.DataFrame(results): a column of Nones only stays an object column,
\* a column with at least one float becomes float64 with NaN for None
DataFrame(results) ==
    LET allNone == \A i \in 1..Len(results) :
                       results[i].price_per_night = None
    IN  [i \in 1..Len(results) |->
            IF allNone \/ results[i].price_per_night # None THEN results[i]
            ELSE [results[i] EXCEPT !.price_per_night = NaN]]

IsObjectColumn(frame) ==
    \E i \in 1..Len(frame) : frame[i].price_per_night = None

\* a subtraction that treats a missing price as 0 (fillna(0))
SubFilled(a, b) ==
    Num((IF IsNum(a) THEN a.val ELSE 0) - (IF IsNum(b) THEN b.val ELSE 0))

\* price - own_price
Sub(a, b) == IF IsNum(a) /\ IsNum(b) THEN Num(a.val - b.val) ELSE NaN

\* (diff/own_price*100).round(1), in tenths of a percent
Pct(d, own) ==
    IF ~IsNum(d) \/ ~IsNum(own) THEN NaN
    ELSE IF own.val = 0
        THEN (IF d.val = 0 THEN NaN ELSE IF d.val > 0 THEN PosInf ELSE NegInf)
    ELSE Num(RoundDiv(d.val * 100 * Pow10(PctDecimals), own.val))

\* df_result[df_result["role"]=="own"]["price_per_night"].iloc[0]
OwnPrice(frame) ==
    LET k == CHOOSE i \in 1..Len(frame) :
                 /\ frame[i].role = "own"
                 /\ \A j \in 1..(i - 1) : frame[j].role # "own"
    IN  frame[k].price_per_night

\* build_room_table after the gather: the two diff columns
WithDiffs(frame) ==
    LET own_price == OwnPrice(frame)
    IN  [i \in 1..Len(frame) |->
            LET d == Sub(frame[i].price_per_night, own_price)
            IN  [property_name |-> frame[i].property_name,
                 role |-> frame[i].role,
                 price_per_night |-> frame[i].price_per_night,
                 diff_vs_own_eur |-> d,
                 diff_vs_own_pct |-> Pct(d, own_price)]]

\* results = await asyncio.gather(*tasks): results in submission order
Gather(ts) == [i \in 1..Len(ts) |-> ts[i].result]

---------------------------------------------------------------------------
(* The cached CSV *)

\* cache_file = f"prices_cache_{unit}_{room}.csv"
cache_file(unit, room) == "prices_cache_" \o unit \o "_" \o room \o ".csv"

GroupsOfSheets ==
    UNION {{Groups(sh)[k] : k \in 1..Len(Groups(sh))} : sh \in Sheets}

FileNames == {cache_file(g.unit, g.room) : g \in GroupsOfSheets}

NoFile == [exists |-> FALSE, rows |-> <<>>]

CsvEmpty == [kind |-> "csv_empty", val |-> 0]

\* to_csv of a float cell: missing values are written as the empty string
ToCsvCell(x) ==
    IF IsNa(x) THEN CsvEmpty ELSE [kind |-> "csv_" \o x.kind, val |-> x.val]

\* read_csv of a float cell: the empty string is read as NaN
FromCsvCell(c) ==
    IF c = CsvEmpty THEN NaN
    ELSE IF c.kind = "csv_num" THEN Num(c.val)
    ELSE IF c.kind = "csv_inf" THEN PosInf
    ELSE NegInf

\* a save that drops the rows without a price (dropna) before writing
to_csv_dropna(frame) ==
    [exists |-> TRUE,
     rows |-> LET kept == SelectSeq(frame, LAMBDA r :
                              ~IsNa(r.price_per_night))
              IN  [i \in 1..Len(kept) |->
                     [property_name |-> kept[i].property_name,
                      role |-> kept[i].role,
                      price_per_night |-> ToCsvCell(kept[i].price_per_night),
                      diff_vs_own_eur |-> ToCsvCell(kept[i].diff_vs_own_eur),
                      diff_vs_own_pct |->
                          ToCsvCell(kept[i].diff_vs_own_pct)]]]

\* df_room.to_csv(cache_file, index=False)
to_csv(frame) ==
    [exists |-> TRUE,
     rows |-> [i \in 1..Len(frame) |->
                 [property_name |-> frame[i].property_name,
                  role |-> frame[i].role,
                  price_per_night |-> ToCsvCell(frame[i].price_per_night),
                  diff_vs_own_eur |-> ToCsvCell(frame[i].diff_vs_own_eur),
                  diff_vs_own_pct |-> ToCsvCell(frame[i].diff_vs_own_pct)]]]

\* pd.read_csv(cache_file); exists = FALSE stands for FileNotFoundError
read_csv(file) ==
    [exists |-> file.exists,
     rows |-> [i \in 1..Len(file.rows) |->
                 [property_name |-> file.rows[i].property_name,
                  role |-> file.rows[i].role,
                  price_per_night |->
                      FromCsvCell(file.rows[i].price_per_night),
                  diff_vs_own_eur |->
                      FromCsvCell(file.rows[i].diff_vs_own_eur),
                  diff_vs_own_pct |->
                      FromCsvCell(file.rows[i].diff_vs_own_pct)]]]

\* df_room.merge(old, on="property_name", suffixes=("","_old")): inner
\* join, left order kept, one merged row per matching pair
merge(left, right) ==
    Flatten([i \in 1..Len(left) |->
        LET hits == SelectSeq(right, LAMBDA r :
                        r.property_name = left[i].property_name)
        IN  [j \in 1..Len(hits) |->
                [property_name |-> left[i].property_name,
                 role |-> left[i].role,
                 price_per_night |-> left[i].price_per_night,
                 price_per_night_old |-> hits[j].price_per_night]]])

\* a comparison that only looks for a price going up
NotEqualRising(a, b) ==
    IF IsNa(a) \/ IsNa(b) THEN TRUE ELSE a.val > b.val

\* elementwise != of two columns: a missing value differs from everything,
\* itself included
NotEqual(a, b) ==
    IF IsNa(a) \/ IsNa(b) THEN TRUE ELSE a # b

\* changed = merged[merged.price_per_night != merged.price_per_night_old]
ChangedRows(merged) ==
    SelectSeq(merged, LAMBDA r :
        NotEqual(r.price_per_night, r.price_per_night_old))

\* the alert text "{unit}/{room} - {name} price changed {old} -> {new}"
Alert(unit, room, r) ==
    [unit_name |-> unit, room_type |-> room,
     property_name |-> r.property_name,
     old_price |-> r.price_per_night_old,
     new_price |-> r.price_per_night]

\* a comparison that takes a missing cache file for an empty snapshot and
\* reports every priced property as changed
CompareMissingAsEmpty(frame, oldframe) ==
    IF oldframe.exists THEN ChangedRows(merge(frame, oldframe.rows))
    ELSE [i \in 1..Len(frame) |->
            [property_name |-> frame[i].property_name,
             role |-> frame[i].role,
             price_per_night |-> frame[i].price_per_night,
             price_per_night_old |-> NaN]]

\* the try block around read_csv: the rows to alert on
Compare(frame, oldframe) ==
    IF oldframe.exists THEN ChangedRows(merge(frame, oldframe.rows))
    ELSE <<>>

---------------------------------------------------------------------------
(* The run *)

Pending == [done |-> FALSE,
            result |-> [property_name |-> "", role |-> "",
                        price_per_night |-> None]]

NoTable == <<>>

\* "if check_out <= check_in: st.stop()": the button is only offered for
\* a stay of at least one night
DatesOk(ci, co) == co > ci

Init ==
    /\ pc = "idle"
    /\ check_in = 0
    /\ check_out = 1
    /\ df = <<>>
    /\ groups = <<>>
    /\ gi = 1
    /\ rows = <<>>
    /\ tasks = <<>>
    /\ payloads = <<>>
    /\ df_room = NoTable
    /\ old = NoFile
    /\ changed = <<>>
    /\ alerts = <<>>
    /\ report = <<>>
    /\ files = [f \in FileNames |-> NoFile]
    /\ slack = <<>>

\* the dates are picked, the button is pressed, load_sheet() returns one of
\* the sheets, alerts = []
Click(sheets) ==
    /\ pc = "idle"
    /\ \E sheet \in sheets, co \in 0..MaxStay :
        /\ DatesOk(0, co)
        /\ check_in' = 0
        /\ check_out' = co
        /\ df' = sheet
        /\ groups' = Groups(sheet)
        /\ report' = [k \in 1..Len(Groups(sheet)) |-> ""]
    /\ alerts' = <<>>
    /\ slack' = <<>>
    /\ gi' = 1
    /\ pc' = "loop"
    /\ rows' = <<>>
    /\ tasks' = <<>>
    /\ payloads' = <<>>
    /\ df_room' = NoTable
    /\ old' = NoFile
    /\ changed' = <<>>
    /\ UNCHANGED files

\* a failure path that has already truncated the group's cache file
GroupFailsTruncating(msg) ==
    /\ report' = [report EXCEPT ![gi] = msg]
    /\ gi' = gi + 1
    /\ pc' = "loop"
    /\ rows' = <<>>
    /\ tasks' = <<>>
    /\ payloads' = <<>>
    /\ df_room' = NoTable
    /\ old' = NoFile
    /\ changed' = <<>>
    /\ files' = [files EXCEPT
                   ![cache_file(groups[gi].unit, groups[gi].room)] =
                       [exists |-> TRUE, rows |-> <<>>]]
    /\ UNCHANGED <<check_in, check_out, df, groups, alerts, slack>>

\* "except Exception as e: st.error(...)": the group is reported failed and
\* the loop goes on; nothing else is touched
GroupFails(msg) ==
    /\ report' = [report EXCEPT ![gi] = msg]
    /\ gi' = gi + 1
    /\ pc' = "loop"
    /\ rows' = <<>>
    /\ tasks' = <<>>
    /\ payloads' = <<>>
    /\ df_room' = NoTable
    /\ old' = NoFile
    /\ changed' = <<>>
    /\ UNCHANGED <<check_in, check_out, df, groups, alerts, files, slack>>

\* build_room_table up to the creation of the tasks; the locals of the
\* previous group are dead from here on
StartGroup ==
    /\ pc = "loop"
    /\ gi <= Len(groups)
    /\ LET g == groups[gi]
           v == validate_room_block(df, g.unit, g.room)
       IN  IF v.ok
           THEN /\ rows' = v.rows
                /\ tasks' = [i \in 1..Len(v.rows) |-> Pending]
                /\ payloads' = [i \in 1..Len(v.rows) |-> <<>>]
                /\ pc' = "gather"
                /\ df_room' = NoTable
                /\ old' = NoFile
                /\ changed' = <<>>
                /\ UNCHANGED <<check_in, check_out, df, groups, gi, alerts,
                               report, files, slack>>
           ELSE GroupFails(v.err)

\* one fetch_price task gets its response and returns its dict; the tasks
\* of a group complete in any order
JobDone ==
    /\ pc = "gather"
    /\ \E i \in 1..Len(tasks) :
        /\ ~tasks[i].done
        /\ \E p \in Responses(TaskRow(rows, i).booking_url) :
            /\ payloads' = [payloads EXCEPT ![i] = <<p>>]
            /\ tasks' = [tasks EXCEPT ![i] =
                   [done |-> TRUE,
                    result |-> fetch_price(TaskRow(rows, i), p,
                                           Nights(check_in, check_out))]]
    /\ UNCHANGED <<pc, check_in, check_out, df, groups, gi, rows, df_room,
                   old, changed, alerts, report, files, slack>>

\* run_apify raises in one task (timeout, transport error, HTTP status):
\* gather re-raises it, asyncio.run cancels the tasks still pending, and the
\* exception reaches the except clause of the run loop
JobRaise ==
    /\ pc = "gather"
    /\ \E i \in 1..Len(tasks) : ~tasks[i].done
    /\ \E f \in Faults : GroupFails(f)

AllDone == \A i \in 1..Len(tasks) : tasks[i].done

\* All prices None: price_per_night and the diff columns are object columns.
\* Whether .round(1) on such a column raises TypeError or returns it as it is
\* differs between pandas releases, and the script pins none: either may
\* happen, so this action and FinishGroup are both enabled.
RoundRaises ==
    /\ pc = "gather"
    /\ AllDone
    /\ IsObjectColumn(DataFrame(Gather(tasks)))
    /\ GroupFails("round: not a numeric dtype")

\* the gather returns; the table is built and shown, compared with the
\* cached CSV, and the cached CSV is overwritten
FinishGroup ==
    /\ pc = "gather"
    /\ AllDone
    /\ LET g == groups[gi]
           table == WithDiffs(DataFrame(Gather(tasks)))
           name == cache_file(g.unit, g.room)
           prev == read_csv(files[name])
           diff == Compare(table, prev)
       IN  /\ df_room' = table
           /\ old' = prev
           /\ changed' = diff
           /\ alerts' = alerts \o
                  [k \in 1..Len(diff) |-> Alert(g.unit, g.room, diff[k])]
           /\ files' = [files EXCEPT ![name] = to_csv(table)]
    /\ report' = [report EXCEPT ![gi] = "table"]
    /\ gi' = gi + 1
    /\ pc' = "loop"
    /\ UNCHANGED <<check_in, check_out, df, groups, rows, tasks, payloads,
                   slack>>

\* after the loops: "if alerts: send_slack_alert(...)"
EndRun ==
    /\ pc = "loop"
    /\ gi > Len(groups)
    /\ slack' = alerts
    /\ pc' = "idle"
    /\ UNCHANGED <<check_in, check_out, df, groups, gi, rows, tasks,
                   payloads, df_room, old, changed, alerts, report, files>>

Next ==
    \/ Click(Sheets)
    \/ StartGroup
    \/ JobDone
    \/ JobRaise
    \/ RoundRaises
    \/ FinishGroup
    \/ EndRun

Spec == Init /\ [][Next]_vars

\* The same program run on SheetsLive only.  No table of these sheets is
\* all None, so RoundRaises is never enabled and is left out.
NextLive ==
    \/ Click(SheetsLive)
    \/ StartGroup
    \/ JobDone
    \/ JobRaise
    \/ FinishGroup
    \/ EndRun

SpecLive == Init /\ [][NextLive]_vars

---------------------------------------------------------------------------
(* Vocabulary of the properties *)

\* the group the loop handled last, once it has handled one
Handled == gi > 1 /\ pc # "gather"
LastGroup == groups[gi - 1]

\* the last group got its table: df_room, old, changed, rows, tasks and
\* payloads are those of that group
TableShown == Handled /\ report[gi - 1] = "table"

LastFile == files[cache_file(LastGroup.unit, LastGroup.room)]

\* the alerts of the current run that name the group
AlertsOf(g) ==
    SelectSeq(alerts, LAMBDA a :
        a.unit_name = g.unit /\ a.room_type = g.room)

EventsFor(name) ==
    {k \in 1..Len(AlertsOf(LastGroup)) :
        AlertsOf(LastGroup)[k].property_name = name}

\* the rows of the snapshot read for the last group that name the property
OldRows(name) == {j \in 1..Len(old.rows) : old.rows[j].property_name = name}

OwnRows(sheet, g) ==
    SelectSeq(RoomBlock(sheet, g.unit, g.room), LAMBDA r : r.role = "own")

---------------------------------------------------------------------------
(* Properties *)

\* C1: a job that times out or returns a transport error yields an
\* unresolved price for its own property only; the group is never reported
\* failed because of it and its comparison table is still produced.
C1_JobFaultKeepsGroup ==
    \A k \in 1..Len(report) : report[k] \notin Faults

\* C2: an absent price is a value distinct from every number.  For every
\* property of the table compared with an existing snapshot: absent in both
\* gives no event, absent on exactly one side gives an event, and a property
\* missing from the snapshot and resolved now gives exactly one event whose
\* old price is absent.
C2_AbsentIsAValue ==
    (TableShown /\ old.exists) =>
        \A i \in 1..Len(df_room) :
            LET name == df_room[i].property_name
                cur == df_room[i].price_per_night
                oldAbsent == \A j \in OldRows(name) :
                                 IsNa(old.rows[j].price_per_night)
                events == EventsFor(name)
            IN  /\ (oldAbsent /\ IsNa(cur)) => events = {}
                /\ (oldAbsent # IsNa(cur)) => events # {}
                /\ (OldRows(name) = {} /\ IsNum(cur)) =>
                       /\ Cardinality(events) = 1
                       /\ \A k \in events :
                              IsNa(AlertsOf(LastGroup)[k].old_price)

\* C3: for every property resolved both in the snapshot read and in the
\* current table: equal prices give no event for it, different prices give
\* exactly one event, carrying old = snapshot price and new = current price.
C3_ResolvedChange ==
    (TableShown /\ old.exists) =>
        \A i \in 1..Len(df_room) : \A j \in OldRows(df_room[i].property_name) :
            LET name == df_room[i].property_name
                cur == df_room[i].price_per_night
                was == old.rows[j].price_per_night
            IN  (IsNum(cur) /\ IsNum(was)) =>
                    IF cur.val = was.val THEN EventsFor(name) = {}
                    ELSE /\ Cardinality(EventsFor(name)) = 1
                         /\ \A k \in EventsFor(name) :
                                /\ AlertsOf(LastGroup)[k].old_price = was
                                /\ AlertsOf(LastGroup)[k].new_price = cur

\* a property resolved at different prices in the snapshot and in the table,
\* with its event raised
C3_Witness ==
    /\ TableShown
    /\ old.exists
    /\ \E i \in 1..Len(df_room) : \E j \in OldRows(df_room[i].property_name) :
           /\ IsNum(df_room[i].price_per_night)
           /\ IsNum(old.rows[j].price_per_night)
           /\ df_room[i].price_per_night # old.rows[j].price_per_night
           /\ EventsFor(df_room[i].property_name) # {}

\* C4: a run of one group reads and overwrites only that group's snapshot:
\* every step leaves the snapshot of every other group of the sheet as it
\* was.
C4_OtherSnapshotsKept ==
    [][\A k \in 1..Len(groups) :
           k # gi =>
               files'[cache_file(groups[k].unit, groups[k].room)]
                   = files[cache_file(groups[k].unit, groups[k].room)]
      ]_vars

\* C5: once a group's comparison is through, its snapshot holds exactly the
\* rows of the table, in order, one per property of the group in the sheet,
\* each with the table's price (empty for an unresolved one); nothing of the
\* snapshot read before survives unless the table has it.
C5_SnapshotReplaced ==
    TableShown =>
        LET block == validate_room_block(df, LastGroup.unit,
                                         LastGroup.room).rows
        IN  /\ LastFile.exists
            /\ Len(LastFile.rows) = Len(block)
            /\ Len(df_room) = Len(block)
            /\ \A i \in 1..Len(block) :
                /\ LastFile.rows[i].property_name = block[i].property_name
                /\ df_room[i].property_name = block[i].property_name
                /\ IF IsNum(df_room[i].price_per_night)
                   THEN LastFile.rows[i].price_per_night
                            = [kind |-> "csv_num",
                               val |-> df_room[i].price_per_night.val]
                   ELSE LastFile.rows[i].price_per_night = CsvEmpty

\* the snapshot read held a property the table no longer has, and a row of
\* the table is unresolved
C5_Witness ==
    /\ TableShown
    /\ old.exists
    /\ \E j \in 1..Len(old.rows) :
           /\ \A i \in 1..Len(df_room) :
                  df_room[i].property_name # old.rows[j].property_name
           /\ \A i \in 1..Len(LastFile.rows) :
                  LastFile.rows[i].property_name # old.rows[j].property_name
    /\ \E i \in 1..Len(df_room) : IsNa(df_room[i].price_per_night)

\* C6: when the group's cache file does not exist, the comparison raises no
\* alert for the group whatever the prices are, and the snapshot is written.
C6_FirstRun ==
    (TableShown /\ ~old.exists) =>
        /\ AlertsOf(LastGroup) = <<>>
        /\ changed = <<>>
        /\ LastFile.exists
        /\ Len(LastFile.rows) = Len(df_room)

\* a first run of a group with resolved prices
C6_Witness ==
    /\ TableShown
    /\ ~old.exists
    /\ \E i \in 1..Len(df_room) : IsNum(df_room[i].price_per_night)
    /\ LastFile.exists

\* C7: a group gets a table only if exactly one of its rows is an own row;
\* a group with zero or several own rows is reported with the validation
\* error, gets no table, and the loop still handles every other group.
C7_OneOwnRow ==
    /\ \A k \in 1..Len(report) :
        /\ report[k] = "table" => Len(OwnRows(df, groups[k])) = 1
        /\ (k < gi /\ Len(OwnRows(df, groups[k])) # 1) =>
               report[k] = "Must have exactly 1 own property"
        /\ k < gi => report[k] # ""
    /\ (pc = "idle" /\ df # <<>>) => gi = Len(groups) + 1

\* a finished run that reported a group without own row and one with two,
\* and still produced the table of another group
C7_Witness ==
    /\ pc = "idle"
    /\ \E k \in 1..Len(report) :
           /\ Len(OwnRows(df, groups[k])) = 0
           /\ report[k] = "Must have exactly 1 own property"
    /\ \E k \in 1..Len(report) :
           /\ Len(OwnRows(df, groups[k])) = 2
           /\ report[k] = "Must have exactly 1 own property"
    /\ \E k \in 1..Len(report) : report[k] = "table"

\* the price of the own row of the table shown
ShownOwnPrice ==
    LET k == CHOOSE i \in 1..Len(df_room) : df_room[i].role = "own"
    IN  df_room[k].price_per_night

\* C8: in every table produced, a row has its absolute diff exactly when its
\* price and the own price are both resolved, and then it equals price minus
\* own price; a row with an unresolved price has both diff fields absent;
\* with the own price unresolved both diff fields are absent in every row.
C8_DiffColumns ==
    TableShown =>
        \A i \in 1..Len(df_room) :
            LET r == df_room[i]
                both == IsNum(r.price_per_night) /\ IsNum(ShownOwnPrice)
            IN  /\ both =>
                       /\ IsNum(r.diff_vs_own_eur)
                       /\ r.diff_vs_own_eur.val
                              = r.price_per_night.val - ShownOwnPrice.val
                /\ ~both =>
                       /\ IsNa(r.diff_vs_own_eur)
                       /\ IsNa(r.diff_vs_own_pct)

\* a table with the own price resolved, a competitor at another price and an
\* unresolved competitor
C8_Witness ==
    /\ TableShown
    /\ IsNum(ShownOwnPrice)
    /\ \E i \in 1..Len(df_room) :
           /\ IsNum(df_room[i].diff_vs_own_eur)
           /\ df_room[i].diff_vs_own_eur.val # 0
    /\ \E i \in 1..Len(df_room) :
           /\ df_room[i].role = "competitor"
           /\ IsNa(df_room[i].price_per_night)
           /\ IsNa(df_room[i].diff_vs_own_eur)

\* the price a quote must carry for a payload
QuotePrice(payload) ==
    extract_price_per_night(payload, Nights(check_in, check_out))

\* C9: one result per submitted row, in submission order, whatever the order
\* in which the jobs complete: the i-th finished task and the i-th row of
\* the table carry the property_name and role of the i-th submitted row and
\* the price extracted from the payload fetched for that row's URL.
C9_ResultsMatchRows ==
    /\ pc = "gather" =>
        /\ Len(tasks) = Len(rows)
        /\ \A i \in 1..Len(tasks) :
               tasks[i].done =>
                   /\ tasks[i].result.property_name = rows[i].property_name
                   /\ tasks[i].result.role = rows[i].role
                   /\ Len(payloads[i]) = 1
                   /\ payloads[i][1] \in Responses(rows[i].booking_url)
                   /\ tasks[i].result.price_per_night
                          = QuotePrice(payloads[i][1])
    /\ TableShown =>
        /\ Len(df_room) = Len(rows)
        /\ rows = validate_room_block(df, LastGroup.unit, LastGroup.room).rows
        /\ \A i \in 1..Len(df_room) :
               /\ df_room[i].property_name = rows[i].property_name
               /\ df_room[i].role = rows[i].role
               /\ payloads[i][1] \in Responses(rows[i].booking_url)
               /\ IF IsNum(QuotePrice(payloads[i][1]))
                  THEN df_room[i].price_per_night = QuotePrice(payloads[i][1])
                  ELSE IsNa(df_room[i].price_per_night)

\* the job submitted last has completed while the job submitted first is
\* still pending
C9_Witness ==
    /\ pc = "gather"
    /\ Len(tasks) = NumOwn + NumCompetitors
    /\ tasks[Len(tasks)].done
    /\ IsNum(tasks[Len(tasks)].result.price_per_night)
    /\ ~tasks[1].done

\* C10: a step that reports a group failed (invalid composition, missing
\* URL, failed job) leaves every cache file and the alert list as they were
\* and moves the loop on to the next group.
C10_FailureTouchesNothing ==
    [][(pc # "idle" /\ gi <= Len(report) /\ report[gi] = ""
            /\ Len(report') = Len(report)
            /\ report'[gi] \notin {"", "table"})
        => (files' = files /\ alerts' = alerts
                /\ pc' = "loop" /\ gi' = gi + 1)]_vars

\* a job fault was reported for a group that has a snapshot and after alerts
\* had been raised, and the run went on to its end
C10_Witness ==
    /\ pc = "idle"
    /\ \E k \in 1..Len(report) :
           /\ report[k] \in Faults
           /\ files[cache_file(groups[k].unit, groups[k].room)].exists
    /\ \E k \in 1..Len(report) : report[k] = "Missing booking_url"
    /\ \E k \in 1..Len(report) : report[k] = "Must have exactly 5 competitors"

=============================================================================
